---- MODULE Spec2Model ----
(***************************************************************************)
(* The pretty event formatter of tracing-subscriber                        *)
(* (src/tracing-subscriber/src/fmt/format/pretty.rs) and its conditional   *)
(* styling (src/tracing-subscriber/src/fmt/format/style.rs).               *)
(*                                                                         *)
(* Text is modelled as TLA+ strings.  A formatting call hands the sink a   *)
(* sequence of pieces, one write_str each; the sink may reject any of      *)
(* them.  The escape character is written "\e".                            *)
(***************************************************************************)
EXTENDS Integers, Sequences, FiniteSets, TLC

VARIABLES
    feature_ansi,   \* build: cfg(feature = "ansi")
    tracing_log,    \* build: cfg(feature = "tracing-log")
    pc,             \* position of the running call
    wstyle,         \* writer.style
    out,            \* the text the sink has accepted
    attempts,       \* write_str calls made on the sink
    failures,       \* write_str calls the sink rejected
    sink_faulty,    \* whether the sink may reject a write
    is_empty,       \* PrettyVisitor.is_empty
    result,         \* PrettyVisitor.result
    vstyle,         \* PrettyVisitor.writer.style
    fields,         \* the fields of the event, in emission order
    idx,            \* how many of them have been visited
    ret,            \* what the call returned: "none", "Ok", "Err", "Panic"
    cfg,            \* the Format's display flags
    meta,           \* the event's metadata
    thread,         \* std::thread::current()
    scopes,         \* the scope chain, innermost first
    sidx,           \* how many scopes the loop has passed
    painted         \* the value last handed to paint (style calls only)

vars == <<feature_ansi, tracing_log, pc, wstyle, out, attempts, failures,
          sink_faulty, is_empty, result, vstyle, fields, idx, ret, cfg, meta,
          thread, scopes, sidx, painted>>

(***************************************************************************)
(* Bounds                                                                  *)
(***************************************************************************)
\* longest field sequence visited by a stand-alone visitor
MaxFields == 2
\* longest scope chain of an event
MaxScopes == 2
\* a faulty sink rejects, in each step, the write after 0..MaxBudget accepted
MaxBudget == 4
MaxRecorded == 3

(***************************************************************************)
(* Text helpers                                                            *)
(***************************************************************************)
RECURSIVE Concat(_)
Concat(pieces) ==
    IF pieces = <<>> THEN "" ELSE Head(pieces) \o Concat(Tail(pieces))

StartsWith(s, p) == Len(s) >= Len(p) /\ SubSeq(s, 1, Len(p)) = p

EndsWith(s, p) ==
    Len(s) >= Len(p) /\ SubSeq(s, Len(s) - Len(p) + 1, Len(s)) = p

\* number of (possibly overlapping) occurrences of p in s
Count(p, s) ==
    Cardinality({i \in 1..(Len(s) - Len(p) + 1) :
                    SubSeq(s, i, i + Len(p) - 1) = p})

Contains(s, p) == Count(p, s) > 0

(***************************************************************************)
(* Style (style.rs)                                                        *)
(***************************************************************************)
Levels == {"TRACE", "DEBUG", "INFO", "WARN", "ERROR"}

\* AnsiStyle::new(): no colour, no effect
AnsiStyleNew == [color |-> "", bold |-> FALSE, dimmed |-> FALSE, italic |-> FALSE]

\* Without the ansi feature Style is a unit struct.
StyleNew(is_ansi) ==
    IF feature_ansi
    THEN [is_ansi |-> is_ansi, inner |-> AnsiStyleNew]
    ELSE [is_ansi |-> FALSE, inner |-> AnsiStyleNew]

with_ansi(s, is_ansi) ==
    IF feature_ansi THEN [s EXCEPT !.is_ansi = is_ansi] ELSE s

is_ansi(s) == IF feature_ansi THEN s.is_ansi ELSE FALSE

bold(s) == IF feature_ansi THEN [s EXCEPT !.inner.bold = TRUE] ELSE s

dimmed(s) == IF feature_ansi THEN [s EXCEPT !.inner.dimmed = TRUE] ELSE s

italic(s) == IF feature_ansi THEN [s EXCEPT !.inner.italic = TRUE] ELSE s

\* the foreground codes of purple, blue, green, yellow, red
LevelCode(level) ==
    CASE level = "TRACE" -> "35"
      [] level = "DEBUG" -> "34"
      [] level = "INFO"  -> "32"
      [] level = "WARN"  -> "33"
      [] level = "ERROR" -> "31"

\* only the ansi build has level_color; it sets is_ansi whatever it was
level_color(s, level) ==
    [is_ansi |-> TRUE, inner |-> [s.inner EXCEPT !.color = LevelCode(level)]]

\* owo_colors' Styled: a plain style writes the value alone, any other
\* writes "\e[<codes>m", the value, "\e[0m"
AnsiCodes(inner) ==
    (IF inner.color = "" THEN <<>> ELSE <<inner.color>>)
    \o (IF inner.bold THEN <<"1">> ELSE <<>>)
    \o (IF inner.dimmed THEN <<"2">> ELSE <<>>)
    \o (IF inner.italic THEN <<"3">> ELSE <<>>)

RECURSIVE JoinWith(_, _)
JoinWith(items, sep) ==
    IF items = <<>> THEN ""
    ELSE IF Len(items) = 1 THEN items[1]
    ELSE items[1] \o sep \o JoinWith(Tail(items), sep)

AnsiStyled(inner, pieces) ==
    IF inner = AnsiStyleNew THEN pieces
    ELSE <<"\\e[" \o JoinWith(AnsiCodes(inner), ";") \o "m">>
         \o pieces \o <<"\\e[0m">>

paint_no_flag(s, pieces) ==
    IF feature_ansi THEN AnsiStyled(s.inner, pieces) ELSE pieces

\* StylePainter::paint; pieces are the value's own formatted pieces
paint(s, pieces) ==
    IF feature_ansi
    THEN IF s.is_ansi
         THEN AnsiStyled(s.inner, pieces)
         ELSE AnsiStyled(AnsiStyleNew, pieces)
    ELSE pieces

(***************************************************************************)
(* The sink behind Writer                                                  *)
(***************************************************************************)
\* The writer a step works with: the sink's state, how many writes it still
\* accepts in this step (when limited), and err, the fmt::Result of the
\* last call made on it.
Writer(budget) ==
    [out |-> out, attempts |-> attempts, failures |-> failures,
     limited |-> sink_faulty /\ budget <= MaxBudget, left |-> budget,
     err |-> FALSE]

\* the budget of a step in which the sink rejects nothing
Unlimited == MaxBudget + 1

\* what a step may find of the sink
Budgets == IF sink_faulty THEN 0..Unlimited ELSE {Unlimited}

write_str(w, s) ==
    IF w.limited /\ w.left = 0
    THEN [w EXCEPT !.attempts = @ + 1, !.failures = @ + 1, !.err = TRUE]
    ELSE [w EXCEPT !.out = @ \o s, !.attempts = @ + 1,
                   !.left = IF w.limited THEN @ - 1 ELSE @, !.err = FALSE]

\* write!(writer, ...): the pieces in order, stopping at the first rejected
RECURSIVE write_fmt(_, _)
write_fmt(w, pieces) ==
    IF pieces = <<>> THEN [w EXCEPT !.err = FALSE]
    ELSE LET w1 == write_str(w, Head(pieces))
         IN  IF w1.err THEN w1 ELSE write_fmt(w1, Tail(pieces))

(***************************************************************************)
(* Field values                                                            *)
(***************************************************************************)
\* <str as Debug>::fmt: the text in quotes (the values need no escaping)
DebugStr(s) == <<"\"", s, "\"">>

\* <str as Display>::fmt
DisplayStr(s) == <<s>>

\* Display of a Field: its name as declared
FieldDisplay(name) == name

\* ErrorSourceList: the causes from the immediate one outward, as a list
RECURSIVE ErrorSourceEntries(_)
ErrorSourceEntries(chain) ==
    IF chain = <<>> THEN <<>>
    ELSE IF Len(chain) = 1 THEN <<chain[1]>>
    ELSE <<chain[1], ", ">> \o ErrorSourceEntries(Tail(chain))

ErrorSourceList(chain) == <<"[">> \o ErrorSourceEntries(chain) \o <<"]">>

(***************************************************************************)
(* PrettyVisitor                                                           *)
(***************************************************************************)
\* PrettyVisitor::new
PrettyVisitorNew(w, style, empty) ==
    [w |-> w, style |-> style, is_empty |-> empty, result |-> "Ok"]

write_padding_always(v) ==
    [v EXCEPT !.is_empty = FALSE,
              !.w = write_fmt(v.w, paint(v.style, <<", ">>))]

write_padding(v) ==
    IF v.is_empty
    THEN [v EXCEPT !.is_empty = FALSE, !.w.err = FALSE]
    ELSE [v EXCEPT !.w = write_fmt(v.w, paint(v.style, <<", ">>))]

\* the match arms of record_debug_impl that write a label
LabelledField(v, label, styled_value) ==
    LET v1 == write_padding(v)
    IN  IF v1.w.err THEN v1
        ELSE [v1 EXCEPT !.w = write_fmt(v1.w,
                 paint(bold(v.style), <<label>>)
                 \o paint(bold(v.style), <<":">>)
                 \o <<" ">> \o styled_value)]

record_debug_impl_message_labelled(v, name, styled_value) ==
    IF tracing_log /\ StartsWith(name, "log.")
    THEN [v EXCEPT !.w.err = FALSE]
    ELSE IF StartsWith(name, "r#")
    THEN LabelledField(v, SubSeq(name, 3, Len(name)), styled_value)
    ELSE LabelledField(v, name, styled_value)

record_debug_impl(v, name, styled_value) ==
    IF name = "message"
    THEN LET v1 == write_padding(v)
         IN  IF v1.w.err THEN v1
             ELSE [v1 EXCEPT !.w = write_fmt(v1.w, styled_value)]
    ELSE IF tracing_log /\ StartsWith(name, "log.")
    THEN [v EXCEPT !.w.err = FALSE]
    ELSE IF StartsWith(name, "r#")
    THEN LabelledField(v, SubSeq(name, 3, Len(name)), styled_value)
    ELSE LabelledField(v, name, styled_value)

\* self.result = <the call's fmt::Result>
SetResult(v) == [v EXCEPT !.result = IF v.w.err THEN "Err" ELSE "Ok"]

record_str_unguarded(v, f) ==
    SetResult(
        IF f.name = "message"
        THEN record_debug_impl(v, f.name, paint(v.style, DisplayStr(f.text)))
        ELSE record_debug_impl(v, f.name, paint(v.style, DebugStr(f.text))))

record_str(v, f) ==
    IF v.result = "Err" THEN v
    ELSE SetResult(
        IF f.name = "message"
        THEN record_debug_impl(v, f.name, paint(v.style, DisplayStr(f.text)))
        ELSE record_debug_impl(v, f.name, paint(v.style, DebugStr(f.text))))

ErrorWithSources_from_top(v, f) ==
    paint(v.style, DisplayStr(f.chain[1]))
    \o paint(v.style, <<",">>)
    \o <<" ">>
    \o paint(bold(v.style), <<FieldDisplay(f.name)>>)
    \o paint(bold(v.style), <<".sources">>)
    \o paint(v.style, <<":">>)
    \o <<" ">>
    \o paint(v.style, ErrorSourceList(f.chain))

\* the value handed on when the error has a source
ErrorWithSources(v, f) ==
    paint(v.style, DisplayStr(f.chain[1]))
    \o paint(v.style, <<",">>)
    \o <<" ">>
    \o paint(bold(v.style), <<FieldDisplay(f.name)>>)
    \o paint(bold(v.style), <<".sources">>)
    \o paint(v.style, <<":">>)
    \o <<" ">>
    \o paint(v.style, ErrorSourceList(Tail(f.chain)))

record_error(v, f) ==
    IF v.result = "Err" THEN v
    ELSE SetResult(
        IF Len(f.chain) > 1
        THEN record_debug_impl(v, f.name, ErrorWithSources(v, f))
        ELSE record_debug_impl(v, f.name,
                               paint(v.style, DisplayStr(f.chain[1]))))

record_debug_unguarded(v, f) ==
    SetResult(record_debug_impl(v, f.name, paint(v.style, <<f.text>>)))

record_debug(v, f) ==
    IF v.result = "Err" THEN v
    ELSE SetResult(record_debug_impl(v, f.name, paint(v.style, <<f.text>>)))

\* VisitOutput::finish
finish(v) == v.result

\* the Visit method a field's value dispatches to
Visit(v, f) ==
    CASE f.kind = "str"   -> record_str(v, f)
      [] f.kind = "debug" -> record_debug(v, f)
      [] f.kind = "error" -> record_error(v, f)

(***************************************************************************)
(* Inputs                                                                  *)
(***************************************************************************)
NoMeta == [level |-> "INFO", target |-> "", file |-> <<>>, line |-> <<>>]

NoCfg ==
    [display_level |-> FALSE, display_target |-> FALSE,
     display_filename |-> FALSE, display_line_number |-> FALSE,
     display_location |-> FALSE, display_thread_name |-> FALSE,
     display_thread_id |-> FALSE]

NoThread == [name |-> <<>>, id |-> ""]

Field(name, kind, text, chain) ==
    [name |-> name, kind |-> kind, text |-> text, chain |-> chain]

FieldNames == {"message", "count", "r#type", "log.level", "r#message"}

\* a string; a Debug value (its Debug text); an error without and with causes
FieldValues ==
    { [kind |-> "str", text |-> "hi", chain |-> <<>>],
      [kind |-> "debug", text |-> "3", chain |-> <<>>],
      [kind |-> "error", text |-> "", chain |-> <<"e1">>],
      [kind |-> "error", text |-> "", chain |-> <<"e1", "e2", "e3">>] }

FieldSet ==
    { Field(n, x.kind, x.text, x.chain) : n \in FieldNames, x \in FieldValues }

\* the fields tried on a sink that rejects writes
PlainFieldSet == { f \in FieldSet : f.name \in {"message", "count"} }

FieldSeqs(set, max) == UNION { [1..n -> set] : n \in 1..max }

(***************************************************************************)
(* Style calls                                                             *)
(***************************************************************************)
PaintValues == {"x", "42"}

InitStyle ==
    /\ feature_ansi \in BOOLEAN
    /\ tracing_log = FALSE
    /\ pc = "style"
    /\ \E b \in BOOLEAN : wstyle = StyleNew(b)
    /\ out = "" /\ attempts = 0 /\ failures = 0 /\ sink_faulty = FALSE
    /\ is_empty = TRUE /\ result = "Ok" /\ vstyle = wstyle
    /\ fields = <<>> /\ idx = 0 /\ ret = "none"
    /\ cfg = NoCfg /\ meta = NoMeta /\ thread = NoThread
    /\ scopes = <<>> /\ sidx = 0
    /\ painted = ""

StyleOnly ==
    UNCHANGED <<feature_ansi, tracing_log, attempts, failures, sink_faulty,
                is_empty, result, vstyle, fields, idx, ret, cfg, meta,
                thread, scopes, sidx>>

StyleBold ==
    /\ pc = "style"
    /\ wstyle' = bold(wstyle)
    /\ UNCHANGED <<pc, out, painted>> /\ StyleOnly

StyleDimmed ==
    /\ pc = "style"
    /\ wstyle' = dimmed(wstyle)
    /\ UNCHANGED <<pc, out, painted>> /\ StyleOnly

StyleItalic ==
    /\ pc = "style"
    /\ wstyle' = italic(wstyle)
    /\ UNCHANGED <<pc, out, painted>> /\ StyleOnly

StyleWithAnsi ==
    /\ pc = "style"
    /\ \E b \in BOOLEAN : wstyle' = with_ansi(wstyle, b)
    /\ UNCHANGED <<pc, out, painted>> /\ StyleOnly

StyleLevelColor ==
    /\ pc = "style"
    /\ feature_ansi
    /\ \E l \in Levels : wstyle' = level_color(wstyle, l)
    /\ UNCHANGED <<pc, out, painted>> /\ StyleOnly

\* write!(sink, "{}", style.paint(value))
StylePaint ==
    /\ pc = "style"
    /\ \E x \in PaintValues :
          /\ painted' = x
          /\ out' = Concat(paint(wstyle, <<x>>))
    /\ pc' = "painted"
    /\ UNCHANGED wstyle /\ StyleOnly

NextStyle ==
    \/ StyleBold
    \/ StyleDimmed
    \/ StyleItalic
    \/ StyleWithAnsi
    \/ StyleLevelColor
    \/ StylePaint

SpecStyle == InitStyle /\ [][NextStyle]_vars

\* C9: a style whose activity flag is off paints a value as the value's own
\* text, with no character added, whatever bold, dimmed, italic (and colour)
\* were applied to it, in both builds.
C9_NoAnsiPassthrough ==
    (pc = "painted" /\ ~is_ansi(wstyle)) => out = painted

C9_Witness ==
    /\ pc = "painted" /\ feature_ansi /\ ~wstyle.is_ansi
    /\ wstyle.inner.bold /\ wstyle.inner.dimmed /\ wstyle.inner.italic
    /\ out = painted /\ painted = "42"

(***************************************************************************)
(* Visiting fields                                                         *)
(***************************************************************************)
\* the visitor as a step finds it, on a writer with the step's budget
Visitor(budget) ==
    [w |-> Writer(budget), style |-> vstyle,
     is_empty |-> is_empty, result |-> result]

StoreSink(w) ==
    /\ out' = w.out
    /\ attempts' = w.attempts
    /\ failures' = w.failures

StoreVisitor(v) ==
    /\ StoreSink(v.w)
    /\ is_empty' = v.is_empty
    /\ result' = v.result

VisitOnly ==
    UNCHANGED <<feature_ansi, tracing_log, pc, wstyle, sink_faulty, vstyle,
                fields, ret, cfg, meta, thread, scopes, sidx, painted>>

Visiting == pc \in {"visit", "fields", "add"} /\ idx < Len(fields)

RecordStr ==
    /\ Visiting
    /\ fields[idx + 1].kind = "str"
    /\ \E b \in Budgets : StoreVisitor(record_str(Visitor(b), fields[idx + 1]))
    /\ idx' = idx + 1
    /\ VisitOnly

RecordDebug ==
    /\ Visiting
    /\ fields[idx + 1].kind = "debug"
    /\ \E b \in Budgets : StoreVisitor(record_debug(Visitor(b), fields[idx + 1]))
    /\ idx' = idx + 1
    /\ VisitOnly

RecordError ==
    /\ Visiting
    /\ fields[idx + 1].kind = "error"
    /\ \E b \in Budgets : StoreVisitor(record_error(Visitor(b), fields[idx + 1]))
    /\ idx' = idx + 1
    /\ VisitOnly

\* format_fields: a visitor created with is_empty = true, the fields
\* recorded, then finish()
FormatFieldsFinish ==
    /\ pc = "visit"
    /\ idx = Len(fields)
    /\ ret' = finish(Visitor(Unlimited))
    /\ pc' = "done"
    /\ UNCHANGED <<feature_ansi, tracing_log, wstyle, out, attempts, failures,
                   sink_faulty, is_empty, result, vstyle, fields, idx, cfg,
                   meta, thread, scopes, sidx, painted>>

VisitorStyles ==
    {StyleNew(FALSE), StyleNew(TRUE), level_color(StyleNew(FALSE), "INFO")}

InitVisitor ==
    /\ feature_ansi = TRUE
    /\ tracing_log \in BOOLEAN
    /\ pc = "visit"
    /\ wstyle \in VisitorStyles
    /\ vstyle = wstyle
    /\ out = "" /\ attempts = 0 /\ failures = 0
    /\ sink_faulty \in BOOLEAN
    /\ is_empty = TRUE /\ result = "Ok"
    /\ fields \in FieldSeqs(IF sink_faulty THEN PlainFieldSet ELSE FieldSet,
                            MaxFields)
    /\ idx = 0 /\ ret = "none"
    /\ cfg = NoCfg /\ meta = NoMeta /\ thread = NoThread
    /\ scopes = <<>> /\ sidx = 0
    /\ painted = ""

NextVisitor ==
    \/ RecordStr
    \/ RecordDebug
    \/ RecordError
    \/ FormatFieldsFinish

SpecVisitor == InitVisitor /\ [][NextVisitor]_vars

(***************************************************************************)
(* Reading the output                                                      *)
(***************************************************************************)
Max(a, b) == IF a >= b THEN a ELSE b

\* the least element of a non-empty set of positions
FirstIdx(S) == CHOOSE i \in S : \A j \in S : i <= j

\* s from position i on
From(s, i) == IF i > Len(s) THEN "" ELSE SubSeq(s, i, Len(s))

\* s without its escape sequences "\e[...m"
RECURSIVE StripAnsi(_)
StripAnsi(s) ==
    LET starts == { i \in 1..(Len(s) - 2) : SubSeq(s, i, i + 2) = "\\e[" }
    IN  IF starts = {} THEN s
        ELSE LET p == FirstIdx(starts)
                 ms == { j \in (p + 3)..Len(s) : SubSeq(s, j, j) = "m" }
                 e == IF ms = {} THEN Len(s) ELSE FirstIdx(ms)
             IN  (IF p = 1 THEN "" ELSE SubSeq(s, 1, p - 1))
                 \o StripAnsi(From(s, e + 1))

\* what the step being taken appended to the output
Delta == SubSeq(out', Len(out) + 1, Len(out'))

\* a visitor created with is_empty = true on an empty sink that accepts
\* every write
FreshVisitor ==
    [w |-> [out |-> "", attempts |-> 0, failures |-> 0, limited |-> FALSE,
            left |-> 0, err |-> FALSE],
     style |-> vstyle, is_empty |-> TRUE, result |-> "Ok"]

RECURSIVE VisitAll(_, _)
VisitAll(v, fs) ==
    IF fs = <<>> THEN v ELSE VisitAll(Visit(v, Head(fs)), Tail(fs))

\* the complete rendering of a field sequence
RenderAll(fs) == VisitAll(FreshVisitor, fs).w.out

\* the text of one field, rendered on its own
FieldText(f) == Visit(FreshVisitor, f).w.out

\* log metadata fields, left out when the log bridge is compiled in
Skipped(f) == tracing_log /\ StartsWith(f.name, "log.")

Rendered(f) == ~Skipped(f)

RECURSIVE SumCount(_, _)
SumCount(p, texts) ==
    IF texts = <<>> THEN 0
    ELSE Count(p, Head(texts)) + SumCount(p, Tail(texts))

\* the field about to be visited, and the name a raw identifier stands for
NextField == fields[idx + 1]

Unraw(name) ==
    IF StartsWith(name, "r#") THEN SubSeq(name, 3, Len(name)) ELSE name

VisitStep == Visiting /\ idx' = idx + 1

\* the separator, as the step being taken owes it
Pad == IF is_empty THEN "" ELSE ", "

(***************************************************************************)
(* C1                                                                      *)
(***************************************************************************)
\* C1 as stated: after N >= 1 fields were visited and finish() returned Ok,
\* the output holds exactly N-1 occurrences of ", " and does not start
\* with one.
C1_Original ==
    (pc = "done" /\ ret = "Ok" /\ Len(fields) >= 1)
        => /\ Count(", ", out) = Len(fields) - 1
           /\ ~StartsWith(StripAnsi(out), ", ")

\* C1, amended: while no write was rejected, the output is the texts of the
\* fields rendered so far (those not skipped as log metadata), in order, with
\* exactly one separator between each two neighbours and none in front; so
\* apart from the ", " a field's own text holds (an error's sources), the
\* output holds R-1 occurrences of ", " for R >= 1 rendered fields.
C1_SeparatorsBetweenRendered ==
    failures = 0 =>
        LET shown == SelectSeq(SubSeq(fields, 1, idx), Rendered)
            texts == [i \in 1..Len(shown) |-> FieldText(shown[i])]
        IN  /\ out = JoinWith(texts, Concat(paint(vstyle, <<", ">>)))
            /\ Count(", ", out)
                 = Max(Len(shown) - 1, 0) + SumCount(", ", texts)
            /\ is_empty = (Len(shown) = 0)

C1_Witness ==
    /\ pc = "done" /\ ret = "Ok" /\ idx = 2
    /\ fields[1].name = "message" /\ fields[1].kind = "str"
    /\ fields[2].name = "count" /\ fields[2].kind = "debug"
    /\ out = "hi, count: 3"

(***************************************************************************)
(* C2                                                                      *)
(***************************************************************************)
\* C2 as stated: whatever method visits a field named message, what it
\* writes holds no label: neither "message:" nor "message.<suffix>:".
C2_Original ==
    [][(VisitStep /\ NextField.name = "message")
          => /\ ~Contains(StripAnsi(Delta), "message:")
             /\ ~Contains(StripAnsi(Delta), "message.")]_vars

\* C2, amended: no visit method writes a "message:" label for a field named
\* message.  record_str, record_debug and record_error on an error without a
\* cause write only the value (after the separator); record_error on an error
\* with a cause writes the label "message.sources:" inside the value.
C2_MessageNoLabel ==
    [][(VisitStep /\ NextField.name = "message")
          => LET f == NextField
                 d == StripAnsi(Delta)
                 caused == f.kind = "error" /\ Len(f.chain) > 1
                 value == IF f.kind = "error" THEN f.chain[1] ELSE f.text
             IN  /\ ~Contains(d, "message:")
                 /\ Contains(d, "message.") => caused
                 /\ (failures' = 0 /\ ~caused) => d = Pad \o value
                 /\ (failures' = 0 /\ caused)
                       => Contains(d, "message.sources:")]_vars

C2_Witness ==
    /\ idx = 2 /\ failures = 0
    /\ fields[2].name = "message" /\ fields[2].kind = "error"
    /\ Len(fields[2].chain) > 1
    /\ fields[1].name = "message" /\ fields[1].kind = "str"
    /\ StripAnsi(out) = "hi, e1, message.sources: [e2, e3]"

(***************************************************************************)
(* C3                                                                      *)
(***************************************************************************)
\* C3 as stated: a visit of a field named r#X writes what a visit of a field
\* named X with the same value writes, and leaves the same visitor state.
C3_RawIdentifierAsPlain ==
    [][(VisitStep /\ StartsWith(NextField.name, "r#") /\ ~sink_faulty)
          => LET g == [NextField EXCEPT !.name = Unraw(@)]
                 v == Visit(Visitor(Unlimited), g)
             IN  /\ out' = v.w.out
                 /\ is_empty' = v.is_empty
                 /\ result' = v.result]_vars

(***************************************************************************)
(* C6                                                                      *)
(***************************************************************************)
\* C6 as stated: when the visitor has stopped on a rejected write, the
\* output is the complete rendering of some prefix of the field sequence.
C6_Original ==
    result = "Err"
        => \E k \in 0..Len(fields) : out = RenderAll(SubSeq(fields, 1, k))

\* C6, amended: when the visitor has stopped on a rejected write, the output
\* is the complete rendering of the fields before the one that failed,
\* followed by a proper prefix of that field's rendering (nothing, the
\* separator alone, the separator and the label, ...); nothing of a later
\* field is written.
C6_StopsInsideOneField ==
    result = "Err"
        => \E k \in 1..idx :
              /\ StartsWith(out, RenderAll(SubSeq(fields, 1, k - 1)))
              /\ StartsWith(RenderAll(SubSeq(fields, 1, k)), out)
              /\ out # RenderAll(SubSeq(fields, 1, k))

C6_Witness ==
    /\ result = "Err" /\ idx = 2 /\ ~vstyle.is_ansi
    /\ fields[2].kind = "str"
    /\ EndsWith(out, ", ")

(***************************************************************************)
(* C8                                                                      *)
(***************************************************************************)
\* C8: record_error on a rendered field whose error E1 has the causes
\* E2, E3 writes E1's text, ", ", the label "<name>.sources:" and the list
\* "[E2, E3]", immediate cause first; without a cause it writes the field as
\* an ordinary one whose value is E1's text, and no ".sources".
C8_ErrorField ==
    [][(VisitStep /\ NextField.kind = "error" /\ Rendered(NextField)
            /\ failures' = 0)
          => LET f == NextField
                 d == StripAnsi(Delta)
                 label == IF f.name = "message" THEN ""
                          ELSE Unraw(f.name) \o ": "
             IN  IF Len(f.chain) > 1
                 THEN d = Pad \o label \o f.chain[1] \o ", " \o f.name
                            \o ".sources: ["
                            \o JoinWith(Tail(f.chain), ", ") \o "]"
                 ELSE d = Pad \o label \o f.chain[1]]_vars

C8_Witness ==
    /\ idx = 1 /\ failures = 0 /\ ~vstyle.is_ansi
    /\ fields[1].name = "count" /\ fields[1].kind = "error"
    /\ out = "count: e1, count.sources: [e2, e3]"

(***************************************************************************)
(* format_event                                                            *)
(***************************************************************************)
\* Format::format_timestamp: the timestamp, opaque here, and a space
format_timestamp == <<"<TS>", " ">>

\* Format::format_level: the level label, coloured when the writer's
\* styling is active, and a space
format_level(level) ==
    paint(IF is_ansi(wstyle) THEN level_color(wstyle, level) ELSE wstyle,
          <<level>>)
    \o <<" ">>

\* let style = ...
EventStyle ==
    IF cfg.display_level THEN level_color(wstyle, meta.level) ELSE wstyle

\* let line_number = ...
LineNumber == IF cfg.display_line_number THEN meta.line ELSE <<>>

HeaderPieces_line_always ==
    <<"  ">>
    \o format_timestamp
    \o (IF cfg.display_level THEN format_level(meta.level) ELSE <<>>)
    \o (IF cfg.display_target
        THEN paint(bold(EventStyle), <<meta.target>>)
             \o paint(EventStyle, <<":">>)
        ELSE <<>>)
    \o (IF LineNumber # <<>> /\ cfg.display_location
        THEN paint(EventStyle, <<ToString(LineNumber[1])>>)
             \o paint(EventStyle, <<":">>)
        ELSE <<>>)
    \o <<" ">>

\* the writes up to the space in front of the fields
HeaderPieces ==
    <<"  ">>
    \o format_timestamp
    \o (IF cfg.display_level THEN format_level(meta.level) ELSE <<>>)
    \o (IF cfg.display_target
        THEN paint(bold(EventStyle), <<meta.target>>)
             \o paint(EventStyle, <<":">>)
        ELSE <<>>)
    \o (IF LineNumber # <<>> /\ ~cfg.display_filename /\ cfg.display_location
        THEN paint(EventStyle, <<ToString(LineNumber[1])>>)
             \o paint(EventStyle, <<":">>)
        ELSE <<>>)
    \o <<" ">>

LocationPieces_break_after_location ==
    (IF meta.file # <<>> /\ cfg.display_location /\ cfg.display_filename
     THEN <<"    ">> \o paint(italic(dimmed(wstyle)), <<"at">>)
          \o <<" ", meta.file[1]>>
          \o (IF LineNumber # <<>>
              THEN <<":", ToString(LineNumber[1])>> ELSE <<>>)
          \o <<"\n">>
     ELSE <<>>)
    \o (IF cfg.display_thread_name \/ cfg.display_thread_id
        THEN <<"    ">> \o paint(italic(dimmed(wstyle)), <<"on">>) \o <<" ">>
             \o (IF cfg.display_thread_name /\ thread.name # <<>>
                 THEN <<thread.name[1]>>
                      \o (IF cfg.display_thread_id THEN <<" ">> ELSE <<>>)
                 ELSE <<>>)
             \o (IF cfg.display_thread_id THEN <<thread.id>> ELSE <<>>)
             \o <<"\n">>
        ELSE <<>>)

DimmedItalic == italic(dimmed(wstyle))

ThreadShown == cfg.display_thread_name \/ cfg.display_thread_id

\* the location part and the thread part
LocationPieces ==
    (IF meta.file # <<>> /\ cfg.display_location /\ cfg.display_filename
     THEN <<"    ">> \o paint(DimmedItalic, <<"at">>) \o <<" ", meta.file[1]>>
          \o (IF LineNumber # <<>>
              THEN <<":", ToString(LineNumber[1])>> ELSE <<>>)
          \o <<IF ThreadShown THEN " " ELSE "\n">>
     ELSE IF ThreadShown THEN <<"    ">> ELSE <<>>)
    \o (IF ThreadShown
        THEN paint(DimmedItalic, <<"on">>) \o <<" ">>
             \o (IF cfg.display_thread_name /\ thread.name # <<>>
                 THEN <<thread.name[1]>>
                      \o (IF cfg.display_thread_id THEN <<" ">> ELSE <<>>)
                 ELSE <<>>)
             \o (IF cfg.display_thread_id THEN <<thread.id>> ELSE <<>>)
             \o <<"\n">>
        ELSE <<>>)

\* "    in <target>::<name>"
ScopeHeadPieces(span) ==
    <<"    ">> \o paint(DimmedItalic, <<"in">>) \o <<" ">>
    \o (IF cfg.display_target THEN <<span.target, "::">> ELSE <<>>)
    \o paint(bold(wstyle), <<span.name>>)

\* " with <fields>" unless the cached text is empty, and the line break
ScopeTailPieces(text) ==
    (IF text # ""
     THEN <<" ">> \o paint(DimmedItalic, <<"with">>) \o <<" ", text>>
     ELSE <<>>)
    \o <<"\n">>

ScopeAt_from_root(i) == scopes[Len(scopes) + 1 - i]

\* the i-th span the scope iterator yields: the event's span first, the
\* root last
ScopeAt(i) == scopes[i]

scope_line_default_cache(w, span) ==
    LET w1 == write_fmt(w, ScopeHeadPieces(span))
    IN  IF w1.err THEN [w |-> w1, panic |-> FALSE]
        ELSE [w |-> write_fmt(w1, ScopeTailPieces(
                         IF span.cache = <<>> THEN "" ELSE span.cache[1])),
              panic |-> FALSE]

\* one pass of the scope loop; span.cache is the extensions' entry for
\* FormattedFields, <<>> when there is none
scope_line(w, span) ==
    LET w1 == write_fmt(w, ScopeHeadPieces(span))
    IN  IF w1.err THEN [w |-> w1, panic |-> FALSE]
        ELSE IF span.cache = <<>> THEN [w |-> w1, panic |-> TRUE]
        ELSE [w |-> write_fmt(w1, ScopeTailPieces(span.cache[1])),
              panic |-> FALSE]

EventOnly ==
    UNCHANGED <<feature_ansi, tracing_log, wstyle, sink_faulty, fields, cfg,
                meta, thread, scopes, painted>>

\* the header, then PrettyVisitor::new(writer.by_styled_ref(style), true)
FormatHeader ==
    /\ pc = "start"
    /\ \E b \in Budgets :
          LET w == write_fmt(Writer(b), HeaderPieces)
          IN  /\ StoreSink(w)
              /\ IF w.err
                 THEN pc' = "done" /\ ret' = "Err"
                      /\ UNCHANGED <<vstyle, is_empty, result>>
                 ELSE LET v == PrettyVisitorNew(w, EventStyle, TRUE)
                      IN  /\ pc' = "fields" /\ ret' = ret
                          /\ vstyle' = v.style
                          /\ is_empty' = v.is_empty
                          /\ result' = v.result
    /\ UNCHANGED <<idx, sidx>>
    /\ EventOnly

\* v.finish()?; writer.write_char('\n')?
FieldsEnd ==
    /\ pc = "fields"
    /\ idx = Len(fields)
    /\ IF finish(Visitor(Unlimited)) = "Err"
       THEN pc' = "done" /\ ret' = "Err"
            /\ UNCHANGED <<out, attempts, failures>>
       ELSE \E b \in Budgets :
               LET w == write_str(Writer(b), "\n")
               IN  /\ StoreSink(w)
                   /\ IF w.err THEN pc' = "done" /\ ret' = "Err"
                               ELSE pc' = "location" /\ ret' = ret
    /\ UNCHANGED <<vstyle, is_empty, result, idx, sidx>>
    /\ EventOnly

LocationThread ==
    /\ pc = "location"
    /\ \E b \in Budgets :
          LET w == write_fmt(Writer(b), LocationPieces)
          IN  /\ StoreSink(w)
              /\ IF w.err THEN pc' = "done" /\ ret' = "Err"
                          ELSE pc' = "scopes" /\ ret' = ret
    /\ UNCHANGED <<vstyle, is_empty, result, idx, sidx>>
    /\ EventOnly

ScopeLine ==
    /\ pc = "scopes"
    /\ sidx < Len(scopes)
    /\ \E b \in Budgets :
          LET r == scope_line(Writer(b), ScopeAt(sidx + 1))
          IN  /\ StoreSink(r.w)
              /\ IF r.panic THEN pc' = "done" /\ ret' = "Panic" /\ sidx' = sidx
                 ELSE IF r.w.err THEN pc' = "done" /\ ret' = "Err" /\ sidx' = sidx
                 ELSE pc' = pc /\ ret' = ret /\ sidx' = sidx + 1
    /\ UNCHANGED <<vstyle, is_empty, result, idx>>
    /\ EventOnly

\* writer.write_char('\n')
Trailer ==
    /\ pc = "scopes"
    /\ sidx = Len(scopes)
    /\ \E b \in Budgets :
          LET w == write_str(Writer(b), "\n")
          IN  /\ StoreSink(w)
              /\ ret' = IF w.err THEN "Err" ELSE "Ok"
    /\ pc' = "done"
    /\ UNCHANGED <<vstyle, is_empty, result, idx, sidx>>
    /\ EventOnly

(***************************************************************************)
(* Events                                                                  *)
(***************************************************************************)
Flags(level, target, location, threads) ==
    [display_level |-> level, display_target |-> target,
     display_filename |-> location, display_line_number |-> location,
     display_location |-> location, display_thread_name |-> threads,
     display_thread_id |-> threads]

EventCfgs ==
    { Flags(l, t, loc, th) : l \in BOOLEAN, t \in BOOLEAN,
                             loc \in BOOLEAN, th \in BOOLEAN }

AppMeta ==
    [level |-> "INFO", target |-> "app", file |-> <<"app.rs">>,
     line |-> <<10>>]

MainThread == [name |-> <<"main">>, id |-> "ThreadId(1)"]

\* message = ?"hello", count = 3;  message = "hello", count = 3;
\* error = <an error with one cause>, message = "hello"
EventFields ==
    { << Field("message", "debug", "\"hello\"", <<>>),
         Field("count", "debug", "3", <<>>) >>,
      << Field("message", "str", "hello", <<>>),
         Field("count", "debug", "3", <<>>) >>,
      << Field("error", "error", "", <<"e1", "e2">>),
         Field("message", "str", "hello", <<>>) >> }

\* a span's cache of formatted fields: none, empty, or some text
Caches == { <<>>, <<"">>, <<"port: 8080">> }

SpanName(i) == "span" \o ToString(i)

\* the chains of n spans; the i-th from the event is named after i
Chains(n) ==
    { [i \in 1..n |-> [target |-> "svc", name |-> SpanName(i), cache |-> c[i]]]
        : c \in [1..n -> Caches] }

InitEvent ==
    /\ feature_ansi = TRUE
    /\ tracing_log = FALSE
    /\ pc = "start"
    /\ \E b \in BOOLEAN : wstyle = StyleNew(b)
    /\ vstyle = wstyle
    /\ out = "" /\ attempts = 0 /\ failures = 0
    /\ sink_faulty \in BOOLEAN
    /\ is_empty = TRUE /\ result = "Ok"
    /\ fields \in EventFields
    /\ idx = 0 /\ ret = "none"
    /\ cfg \in EventCfgs
    /\ meta = AppMeta
    /\ thread = MainThread
    /\ \E n \in 0..MaxScopes : scopes \in Chains(n)
    /\ sidx = 0
    /\ painted = ""

NextEvent ==
    \/ FormatHeader
    \/ RecordStr
    \/ RecordDebug
    \/ RecordError
    \/ FieldsEnd
    \/ LocationThread
    \/ ScopeLine
    \/ Trailer

SpecEvent == InitEvent /\ [][NextEvent]_vars

(***************************************************************************)
(* Reading an event block                                                  *)
(***************************************************************************)
\* the lines of s, each without its line break; text after the last line
\* break is left out
RECURSIVE Lines(_)
Lines(s) ==
    LET breaks == { i \in 1..Len(s) : SubSeq(s, i, i) = "\n" }
    IN  IF breaks = {} THEN <<>>
        ELSE LET p == FirstIdx(breaks)
             IN  <<IF p = 1 THEN "" ELSE SubSeq(s, 1, p - 1)>>
                 \o Lines(From(s, p + 1))

\* an "in" line's start for a span, escape sequences removed
InLineHead(span) ==
    "    in " \o (IF cfg.display_target THEN span.target \o "::" ELSE "")
              \o span.name

Returned(r) == pc = "done" /\ ret = r

(***************************************************************************)
(* C4                                                                      *)
(***************************************************************************)
C4_Scenario ==
    /\ ~wstyle.is_ansi /\ ~sink_faulty
    /\ cfg = Flags(TRUE, TRUE, TRUE, FALSE)
    /\ meta = AppMeta
    /\ scopes = <<>>
    /\ fields = << Field("message", "debug", "\"hello\"", <<>>),
                   Field("count", "debug", "3", <<>>) >>

\* C4: with the writer's styling inactive, level, target, filename and line
\* number shown, no thread display and no scope, the INFO event of target
\* app at app.rs:10 with the fields message = "hello" (debug-formatted) and
\* count = 3 is written as exactly this block, without styling characters.
C4_EndToEnd ==
    (C4_Scenario /\ pc = "done")
        => /\ ret = "Ok"
           /\ out = "  <TS> INFO app: \"hello\", count: 3\n    at app.rs:10\n\n"

(***************************************************************************)
(* C5                                                                      *)
(***************************************************************************)
\* C5: once the sink has rejected a write, no step of format_event and no
\* field visit attempts another write or changes the visitor's state; the
\* only steps left are the remaining (idle) visits and the return, finish()
\* returns the failure and so does format_event.
C5_FirstFailureTerminal ==
    [][/\ failures >= 1
          => /\ out' = out /\ attempts' = attempts /\ failures' = failures
             /\ is_empty' = is_empty /\ result' = result
       /\ failures' >= 1 => pc' \in {"fields", "done"}
       /\ (failures' >= 1 /\ pc' = "fields") => result' = "Err"
       /\ (result = "Err" /\ pc = "fields" /\ idx = Len(fields))
          => finish(Visitor(Unlimited)) = "Err" /\ ret' = "Err"
       /\ (failures' >= 1 /\ pc' = "done") => ret' = "Err"]_vars

C5_Witness ==
    /\ Returned("Err") /\ failures = 1
    /\ result = "Err" /\ idx = 2 /\ Len(fields) = 2
    /\ ~Contains(out, "count") /\ fields[2].name = "count"
    /\ Contains(out, "hello")

(***************************************************************************)
(* C7                                                                      *)
(***************************************************************************)
\* C7: when format_event returns Ok for an event with n >= 0 scopes, the
\* block holds exactly n "in" lines, the k-th for the k-th scope counted
\* from the event outward (root last); they follow the field line and the
\* location/thread line, if any, and precede the closing blank line.
C7_ScopeOrder ==
    Returned("Ok") =>
        LET ls == Lines(StripAnsi(out))
            n == Len(scopes)
            ins == { i \in 1..Len(ls) : StartsWith(ls[i], "    in ") }
        IN  /\ Len(ls) >= n + 2
            /\ ins = (Len(ls) - n)..(Len(ls) - 1)
            /\ \A k \in 1..n :
                  StartsWith(ls[Len(ls) - n - 1 + k], InLineHead(scopes[k]))
            /\ ls[Len(ls)] = ""
            /\ EndsWith(out, "\n\n")
            /\ Len(ls) - n - 1 =
                  1 + (IF LocationPieces # <<>> THEN 1 ELSE 0)

C7_Witness ==
    /\ Returned("Ok") /\ Len(scopes) = 2 /\ ~wstyle.is_ansi
    /\ cfg = Flags(FALSE, TRUE, TRUE, FALSE)
    /\ EndsWith(out,
         "\n    at app.rs:10\n    in svc::span1\n    in svc::span2 with port: 8080\n\n")

(***************************************************************************)
(* C10                                                                     *)
(***************************************************************************)
\* C10: a scope's "in" line carries " with <cached text>" exactly when the
\* scope's field cache is present and not empty; a present, empty cache
\* gives the line without the clause; a missing cache ends the call in a
\* panic once its scope is reached, never in Ok and never as a write failure.
C10_ScopeFieldCache ==
    /\ Returned("Ok") =>
          LET ls == Lines(StripAnsi(out))
              n == Len(scopes)
          IN  \A k \in 1..n :
                 /\ scopes[k].cache # <<>>
                 /\ ls[Len(ls) - n - 1 + k] =
                       InLineHead(scopes[k])
                       \o (IF scopes[k].cache[1] # ""
                           THEN " with " \o scopes[k].cache[1] ELSE "")
    /\ Returned("Panic") =>
          /\ sidx < Len(scopes) /\ ScopeAt(sidx + 1).cache = <<>>
          /\ \A k \in 1..sidx : scopes[k].cache # <<>>
          /\ failures = 0
    /\ Returned("Err") => failures = 1
    /\ (pc = "scopes" /\ failures = 0)
          => \A k \in 1..sidx : scopes[k].cache # <<>>

C10_Witness ==
    /\ Returned("Panic") /\ Len(scopes) = 2 /\ sidx = 1
    /\ scopes[1].cache = <<"port: 8080">> /\ scopes[2].cache = <<>>
    /\ ~wstyle.is_ansi /\ cfg.display_target
    /\ EndsWith(out, "    in svc::span1 with port: 8080\n    in svc::span2")

(***************************************************************************)
(* Events under every display configuration                                *)
(***************************************************************************)
\* the seven display switches of the formatter, each on or off
AllCfgs ==
    [display_level : BOOLEAN, display_target : BOOLEAN,
     display_filename : BOOLEAN, display_line_number : BOOLEAN,
     display_location : BOOLEAN, display_thread_name : BOOLEAN,
     display_thread_id : BOOLEAN]

\* the event's metadata with the file and the line known or not
LayoutMetas ==
    { [level |-> "INFO", target |-> "app", file |-> f, line |-> l]
        : f \in {<<>>, AppMeta.file}, l \in {<<>>, AppMeta.line} }

\* the current thread, named or not
LayoutThreads ==
    { [name |-> n, id |-> "ThreadId(1)"] : n \in {<<>>, <<"main">>} }

\* no scope, or one scope with cached fields
LayoutScopes ==
    { <<>>,
      << [target |-> "svc", name |-> SpanName(1),
          cache |-> <<"port: 8080">>] >> }

\* events that between them hold a string, a debug and an error field
LayoutFields == { fs \in EventFields : fs[1].kind # "debug" }

InitLayout ==
    /\ feature_ansi = TRUE
    /\ tracing_log = FALSE
    /\ pc = "start"
    /\ \E b \in BOOLEAN : wstyle = StyleNew(b)
    /\ vstyle = wstyle
    /\ out = "" /\ attempts = 0 /\ failures = 0
    /\ sink_faulty = FALSE
    /\ is_empty = TRUE /\ result = "Ok"
    /\ fields \in LayoutFields
    /\ idx = 0 /\ ret = "none"
    /\ cfg \in AllCfgs
    /\ meta \in LayoutMetas
    /\ thread \in LayoutThreads
    /\ scopes \in LayoutScopes
    /\ sidx = 0
    /\ painted = ""

SpecLayout == InitLayout /\ [][NextEvent]_vars

\* the lines between the field line and the scope lines of a finished block
MiddleLines ==
    LET ls == Lines(StripAnsi(out))
    IN  SubSeq(ls, 2, Len(ls) - Len(scopes) - 1)

\* the event's header and fields, escape sequences removed
FieldLine == Lines(StripAnsi(out))[1]

LocationShown ==
    meta.file # <<>> /\ cfg.display_location /\ cfg.display_filename

LineShownInLocation ==
    LocationShown /\ cfg.display_line_number /\ meta.line # <<>>

AtText ==
    "    at " \o meta.file[1]
    \o (IF LineShownInLocation THEN ":" \o ToString(meta.line[1]) ELSE "")

NameShown == cfg.display_thread_name /\ thread.name # <<>>

OnText ==
    "on "
    \o (IF NameShown THEN thread.name[1] ELSE "")
    \o (IF NameShown /\ cfg.display_thread_id THEN " " ELSE "")
    \o (IF cfg.display_thread_id THEN thread.id ELSE "")

\* the thread part of the one middle line, "" when there is none
ThreadPart ==
    IF MiddleLines = <<>> THEN ""
    ELSE IF LocationShown
         THEN From(MiddleLines[1], Len(AtText) + 2)
         ELSE From(MiddleLines[1], 5)

(***************************************************************************)
(* C11                                                                     *)
(***************************************************************************)
\* C11 as stated: whenever thread-name or thread-id display is enabled the
\* thread part reads "on <name>" or "on <name> <id>", <name> being the
\* thread's name.
C11_Original ==
    (Returned("Ok") /\ ThreadShown) =>
        /\ thread.name # <<>>
        /\ ThreadPart \in { "on " \o thread.name[1],
                            "on " \o thread.name[1] \o " " \o thread.id }

\* C11: in a block format_event returned Ok for, between the field line and
\* the scope lines there is at most one line.  It is "    at <file>[:<line>]"
\* when location and filename display are enabled and the file is known
\* (":<line>" when line-number display is enabled and the line is known);
\* when thread-name or thread-id display is enabled it continues with a
\* space, or starts with four spaces when there is no location part, and
\* "on " followed by the name (when name display is enabled and the thread
\* is named), a space when both name and id are shown, and the id (when id
\* display is enabled).  The line ends with one line break; when neither
\* part applies the block has no such line and no line break for it.
C11_LocationThreadLine ==
    Returned("Ok") =>
        /\ MiddleLines =
              (IF LocationShown /\ ThreadShown
                   THEN << AtText \o " " \o OnText >>
               ELSE IF LocationShown THEN << AtText >>
               ELSE IF ThreadShown THEN << "    " \o OnText >>
               ELSE <<>>)
        /\ Count("\n", out) = 2 + Len(scopes) + Len(MiddleLines)
        /\ Len(MiddleLines) <= 1

C11_Witness ==
    /\ Returned("Ok") /\ ~wstyle.is_ansi /\ scopes # <<>>
    /\ LocationShown /\ cfg.display_thread_name /\ cfg.display_thread_id
    /\ MiddleLines = << "    at app.rs:10 on main ThreadId(1)" >>
    /\ EndsWith(out,
         "\n    at app.rs:10 on main ThreadId(1)\n    in svc::span1 with port: 8080\n\n")

(***************************************************************************)
(* C12                                                                     *)
(***************************************************************************)
\* the event's line number as text
LineText == ToString(AppMeta.line[1])

\* the header up to and including the target part, escape sequences removed
HeaderToTarget ==
    "  <TS> "
    \o (IF cfg.display_level THEN meta.level \o " " ELSE "")
    \o (IF cfg.display_target THEN meta.target \o ":" ELSE "")

InlineLineCase ==
    /\ cfg.display_line_number /\ ~cfg.display_filename
    /\ cfg.display_location /\ meta.line # <<>>

HeaderHasLine ==
    StartsWith(StripAnsi(out), HeaderToTarget \o LineText \o ":")

LocationHasLine ==
    /\ MiddleLines # <<>>
    /\ Contains(MiddleLines[1], ":" \o LineText)

\* C12: once the header is written it holds "<line>:" directly after the
\* target part exactly when line-number display is enabled, filename display
\* is disabled, location display is enabled and the line is known, and the
\* space in front of the fields follows; a finished block holds the line
\* number at most once, never both in the header and in the location line.
C12_InlineLineNumber ==
    /\ (pc = "fields" /\ idx = 0) =>
          /\ HeaderHasLine <=> InlineLineCase
          /\ StripAnsi(out) =
                HeaderToTarget
                \o (IF InlineLineCase THEN LineText \o ":" ELSE "") \o " "
    /\ Returned("Ok") =>
          /\ Count(LineText, StripAnsi(out)) <= 1
          /\ HeaderHasLine <=> InlineLineCase
          /\ LocationHasLine <=> LineShownInLocation
          /\ ~(HeaderHasLine /\ LocationHasLine)

C12_Witness ==
    /\ Returned("Ok") /\ InlineLineCase /\ ~wstyle.is_ansi
    /\ ~cfg.display_level /\ cfg.display_target /\ ~ThreadShown
    /\ scopes = <<>>
    /\ out = "  <TS> app:10: hello, count: 3\n\n"

(***************************************************************************)
(* add_fields                                                              *)
(***************************************************************************)
\* the fields recorded on a span: a message with and without text, a plain
\* field, a log metadata field and an error
BatchFieldSet ==
    { Field("message", "str", "", <<>>),
      Field("message", "str", "hi", <<>>),
      Field("count", "debug", "3", <<>>),
      Field("log.level", "str", "hi", <<>>),
      Field("err", "error", "", <<"e1", "e2">>) }

\* the cache's text is `out`; the fields recorded into it so far, batch
\* after batch, are `fields`
AddFieldsBegin ==
    /\ pc = "cache"
    /\ \E batch \in FieldSeqs(BatchFieldSet, MaxFields) :
          /\ Len(fields) + Len(batch) <= MaxRecorded
          /\ fields' = fields \o batch
    /\ LET empty == (out = "")
           v == PrettyVisitorNew(Writer(Unlimited), wstyle, empty)
       IN  /\ vstyle' = v.style
           /\ is_empty' = v.is_empty
           /\ result' = v.result
    /\ pc' = "add"
    /\ UNCHANGED <<feature_ansi, tracing_log, wstyle, out, attempts, failures,
                   sink_faulty, idx, ret, cfg, meta, thread, scopes, sidx,
                   painted>>

\* v.finish()
AddFieldsFinish ==
    /\ pc = "add"
    /\ idx = Len(fields)
    /\ ret' = finish(Visitor(Unlimited))
    /\ pc' = "cache"
    /\ UNCHANGED <<feature_ansi, tracing_log, wstyle, out, attempts, failures,
                   sink_faulty, is_empty, result, vstyle, fields, idx, cfg,
                   meta, thread, scopes, sidx, painted>>

InitBatches ==
    /\ feature_ansi = TRUE
    /\ tracing_log \in BOOLEAN
    /\ pc = "cache"
    /\ \E b \in BOOLEAN : wstyle = StyleNew(b)
    /\ vstyle = wstyle
    /\ out = "" /\ attempts = 0 /\ failures = 0
    /\ sink_faulty = FALSE
    /\ is_empty = TRUE /\ result = "Ok"
    /\ fields = <<>>
    /\ idx = 0 /\ ret = "none"
    /\ cfg = NoCfg /\ meta = NoMeta /\ thread = NoThread
    /\ scopes = <<>> /\ sidx = 0
    /\ painted = ""

NextBatches ==
    \/ AddFieldsBegin
    \/ RecordStr
    \/ RecordDebug
    \/ RecordError
    \/ AddFieldsFinish

SpecBatches == InitBatches /\ [][NextBatches]_vars

(***************************************************************************)
(* C13                                                                     *)
(***************************************************************************)
\* C13: after any number of add_fields calls on an initially empty cache,
\* all returning Ok, the cache's text equals the text one format_fields pass
\* writes for the concatenation of the batches.
C13_IncrementalAsOnePass ==
    (pc = "cache" /\ ret = "Ok") => out = RenderAll(fields)

====
